---- MODULE Spec2Model ----
(***************************************************************************)
(* Model of the Domicare frontend authentication client                    *)
(* (core/services/auth.service.ts) and of the response contracts it is     *)
(* typed with (models/interface/response.interface.ts,                     *)
(* models/interface/auth.interface.ts).                                    *)
(*                                                                         *)
(* A JavaScript object is a set of <<key, value>> pairs wrapped in a       *)
(* record tagged "object"; the value `undefined` is a record tagged        *)
(* "undefined".  Promises live in a heap (the sequence `promises`) and are *)
(* referred to by their index, so that "the operation returns the          *)
(* transport's promise" is a statement about references.                   *)
(***************************************************************************)
EXTENDS Integers, Sequences, FiniteSets, TLC

VARIABLES
    invocations,   \* calls made on authApi: [op, arg, returned]
    requests,      \* requests handed to the transport: [method, url, data, params, by, promise]
    promises,      \* promise heap: [state, value]
    candidate,     \* object literal submitted to the type checker
    verdict        \* interface name -> "unchecked" | "accepted" | "rejected"

vars == <<invocations, requests, promises, candidate, verdict>>

clientVars == <<invocations, requests, promises>>
typeVars == <<candidate, verdict>>

(***************************************************************************)
(* Bounds                                                                  *)
(***************************************************************************)
MaxCalls == 2

(***************************************************************************)
(* JavaScript values                                                       *)
(***************************************************************************)
Undefined == [type |-> "undefined"]

Obj(fields) == [type |-> "object", fields |-> fields]

Keys(o) == IF o.type = "object" THEN {f[1] : f \in o.fields} ELSE {}

(***************************************************************************)
(* Inputs                                                                  *)
(***************************************************************************)
Emails == {"a@b.com", "c@d.com"}

Passwords == {"pw"}

Codes == {"g1", "g2"}

\* LoginType: { email, password }
LoginArgs == {Obj({<<"email", e>>, <<"password", p>>}) : e \in Emails, p \in Passwords}

\* RegisterType: { email, password, confirm_password }
RegisterArgs ==
    {Obj({<<"email", e>>, <<"password", p>>, <<"confirm_password", p>>}) : e \in Emails, p \in Passwords}

\* { email?: string }
ResetPasswordArgs == {Obj({<<"email", e>>}) : e \in Emails} \cup {Obj({})}

\* { email: string }
SentEmailArgs == {Obj({<<"email", e>>}) : e \in Emails}

\* { code: string }
GoogleArgs == {Obj({<<"code", c>>}) : c \in Codes}

\* values the transport may fulfil a request with
Responses ==
    { Obj({<<"data", Obj({<<"access_token", "t1">>, <<"refresh_token", "t2">>})>>}),
      Obj({<<"data", Obj({<<"message", "sent">>})>>, <<"message", "ok">>}) }

\* values the transport may reject a request with
Errors ==
    { Obj({<<"error", "Unauthorized">>, <<"message", "bad credentials">>, <<"status", "401">>}),
      Obj({<<"message", "Network Error">>}) }

(***************************************************************************)
(* auth.service.ts: URL constants                                          *)
(***************************************************************************)
API_LOGIN_URL == "/auth/login"
API_LOGOUT_URL == "/auth/logout"
API_REGISTER_URL == "/auth/register"
API_SENT_EMAIL_URL == "/auth/email/verify"
API_RESET_PASS_URL == "/auth/email/reset-password"
API_LOGIN_GOOGLE == "/auth/google/callback"

(***************************************************************************)
(* The transport (axiosClient): post(url, data) and get(url, config)       *)
(* describe the request they send.                                         *)
(***************************************************************************)
axiosClientPost(url, data) ==
    [method |-> "POST", url |-> url, data |-> data, params |-> Undefined]

axiosClientGet(url, config) ==
    [method |-> "GET", url |-> url, data |-> Undefined, params |-> config.params]

(***************************************************************************)
(* authApi: the transport call each operation makes                        *)
(***************************************************************************)
\* slip: the credentials are sent as the query string of a GET
loginAsQuery(params) == axiosClientGet(API_LOGIN_URL, [params |-> params])

login(params) == axiosClientPost(API_LOGIN_URL, params)

\* slip: copy of login with the URL constant left unchanged
registerToLoginUrl(params) == axiosClientPost(API_LOGIN_URL, params)

register(params) == axiosClientPost(API_REGISTER_URL, params)

\* slip: the two email URL constants swapped
resetPasswordToVerifyUrl(params) == axiosClientGet(API_SENT_EMAIL_URL, [params |-> params])

resetPassword(params) == axiosClientGet(API_RESET_PASS_URL, [params |-> params])

sentEmailAuth(params) == axiosClientGet(API_SENT_EMAIL_URL, [params |-> params])

\* slip: an empty object literal passed as the body
logoutEmptyBody == axiosClientPost(API_LOGOUT_URL, Obj({}))

logout == axiosClientPost(API_LOGOUT_URL, Undefined)

loginWithGG(params) == axiosClientGet(API_LOGIN_GOOGLE, [params |-> params])

(***************************************************************************)
(* Promise heap                                                            *)
(***************************************************************************)
Pending == [state |-> "pending", value |-> Undefined]

Fulfilled(v) == [state |-> "fulfilled", value |-> v]

Rejected(e) == [state |-> "rejected", value |-> e]

\* The transport takes one request and hands back a new pending promise;
\* the operation returns that very promise to its caller.
Forward(op, arg, req) ==
    /\ Len(invocations) < MaxCalls
    /\ LET p == Len(promises) + 1 IN
        /\ promises' = Append(promises, Pending)
        /\ requests' = Append(requests,
               [method |-> req.method, url |-> req.url, data |-> req.data,
                params |-> req.params, by |-> Len(invocations) + 1, promise |-> p])
        /\ invocations' = Append(invocations, [op |-> op, arg |-> arg, returned |-> p])
    /\ UNCHANGED typeVars

\* slip: the transport promise is wrapped in a new promise that is never
\* wired to it, and the wrapper is what the caller gets
ForwardDetached(op, arg, req) ==
    /\ Len(invocations) < MaxCalls
    /\ LET p == Len(promises) + 1 IN
        /\ promises' = promises \o <<Pending, Pending>>
        /\ requests' = Append(requests,
               [method |-> req.method, url |-> req.url, data |-> req.data,
                params |-> req.params, by |-> Len(invocations) + 1, promise |-> p])
        /\ invocations' = Append(invocations, [op |-> op, arg |-> arg, returned |-> p + 1])
    /\ UNCHANGED typeVars

\* slip: the transport is called twice for one invocation
ForwardTwice(op, arg, req) ==
    /\ Len(invocations) < MaxCalls
    /\ LET p == Len(promises) + 1
           r == [method |-> req.method, url |-> req.url, data |-> req.data,
                 params |-> req.params, by |-> Len(invocations) + 1, promise |-> p]
       IN
        /\ promises' = promises \o <<Pending, Pending>>
        /\ requests' = requests \o <<r, [r EXCEPT !.promise = p + 1]>>
        /\ invocations' = Append(invocations, [op |-> op, arg |-> arg, returned |-> p + 1])
    /\ UNCHANGED typeVars

\* slip: a login in flight is reused instead of issuing a new request
LoginShared(params) ==
    LET inflight == {k \in DOMAIN requests :
                        /\ requests[k].url = API_LOGIN_URL
                        /\ promises[requests[k].promise].state = "pending"}
    IN  IF inflight = {}
        THEN Forward("login", params, login(params))
        ELSE /\ Len(invocations) < MaxCalls
             /\ invocations' = Append(invocations,
                    [op |-> "login", arg |-> params,
                     returned |-> requests[CHOOSE k \in inflight : TRUE].promise])
             /\ UNCHANGED <<requests, promises, typeVars>>

LoginDetached(params) == ForwardDetached("login", params, login(params))

Login(params) == Forward("login", params, login(params))

RegisterDetached(params) == ForwardDetached("register", params, register(params))

Register(params) == Forward("register", params, register(params))

\* slip: the argument is validated before the request and a missing email
\* is answered with a locally rejected promise
ResetPasswordValidated(params) ==
    IF "email" \in Keys(params)
    THEN Forward("resetPassword", params, resetPassword(params))
    ELSE /\ Len(invocations) < MaxCalls
         /\ promises' = Append(promises, Rejected(Obj({<<"message", "email is required">>})))
         /\ invocations' = Append(invocations,
                [op |-> "resetPassword", arg |-> params, returned |-> Len(promises) + 1])
         /\ UNCHANGED <<requests, typeVars>>

ResetPassword(params) == Forward("resetPassword", params, resetPassword(params))

SentEmailAuthTwice(params) == ForwardTwice("sentEmailAuth", params, sentEmailAuth(params))

SentEmailAuth(params) == Forward("sentEmailAuth", params, sentEmailAuth(params))

Logout == Forward("logout", Undefined, logout)

LoginWithGG(params) == Forward("loginWithGG", params, loginWithGG(params))

\* The transport completes request k successfully.
TransportResolve(k, v) ==
    /\ k \in DOMAIN requests
    /\ promises[requests[k].promise].state = "pending"
    /\ promises' = [promises EXCEPT ![requests[k].promise] = Fulfilled(v)]
    /\ UNCHANGED <<invocations, requests, typeVars>>

\* The transport fails request k (network failure, non-2xx status).
TransportReject(k, e) ==
    /\ k \in DOMAIN requests
    /\ promises[requests[k].promise].state = "pending"
    /\ promises' = [promises EXCEPT ![requests[k].promise] = Rejected(e)]
    /\ UNCHANGED <<invocations, requests, typeVars>>

(***************************************************************************)
(* response.interface.ts: an interface is the set of its members, each     *)
(* with its name, whether it is required (no `?`) and its type.            *)
(***************************************************************************)
Member(name, required, type) == [name |-> name, required |-> required, type |-> type]

SuccessResponse ==
    { Member("data", TRUE, "any"),
      Member("message", FALSE, "string"),
      Member("status", FALSE, "number") }

ErrorResponse ==
    { Member("error", TRUE, "string"),
      Member("message", TRUE, "string"),
      Member("status", TRUE, "number"),
      Member("details", FALSE, "any") }

FailResponse ==
    { Member("status", FALSE, "number"),
      Member("error", FALSE, "string"),
      Member("message", FALSE, "string"),
      Member("data", FALSE, "any") }

\* slip: the `?` of the first member dropped
PaginationResponsePageRequired ==
    { Member("page", TRUE, "number"),
      Member("size", FALSE, "number"),
      Member("total", FALSE, "number"),
      Member("totalPages", FALSE, "number") }

PaginationResponse ==
    { Member("page", FALSE, "number"),
      Member("size", FALSE, "number"),
      Member("total", FALSE, "number"),
      Member("totalPages", FALSE, "number") }

InterfaceNames == {"SuccessResponse", "ErrorResponse", "FailResponse", "PaginationResponse"}

Interface(name) ==
    CASE name = "SuccessResponse" -> SuccessResponse
      [] name = "ErrorResponse" -> ErrorResponse
      [] name = "FailResponse" -> FailResponse
      [] name = "PaginationResponse" -> PaginationResponse

MemberNames == UNION {{m.name : m \in Interface(n)} : n \in InterfaceNames}

ValueTypes == {"string", "number"}

\* An object submitted to the type checker is the map from member name to
\* the typeof its value there, "undefined" where the object has no such
\* member.
Candidates == [MemberNames -> ValueTypes \cup {"undefined"}]

EmptyObject == [k \in MemberNames |-> "undefined"]

Present(o) == {k \in MemberNames : o[k] # "undefined"}

\* Structural assignability of an object to an interface: every required
\* member is present and every present member has the declared type.
MissingMembers(o, I) == {m.name : m \in {x \in I : x.required}} \ Present(o)

IllTypedMembers(o, I) ==
    {k \in Present(o) : \E m \in I : m.name = k /\ m.type \notin {"any", o[k]}}

IsAssignable(o, I) == MissingMembers(o, I) = {} /\ IllTypedMembers(o, I) = {}

TypeCheck ==
    /\ \A n \in InterfaceNames : verdict[n] = "unchecked"
    /\ verdict' = [n \in InterfaceNames |->
                     IF IsAssignable(candidate, Interface(n)) THEN "accepted" ELSE "rejected"]
    /\ UNCHANGED <<candidate, clientVars>>

Init ==
    /\ invocations = <<>>
    /\ requests = <<>>
    /\ promises = <<>>
    /\ candidate = EmptyObject
    /\ verdict = [i \in InterfaceNames |-> "unchecked"]

Next ==
    \/ \E params \in LoginArgs : Login(params)
    \/ \E params \in RegisterArgs : Register(params)
    \/ \E params \in ResetPasswordArgs : ResetPassword(params)
    \/ \E params \in SentEmailArgs : SentEmailAuth(params)
    \/ Logout
    \/ \E params \in GoogleArgs : LoginWithGG(params)
    \/ \E k \in DOMAIN requests, v \in Responses : TransportResolve(k, v)
    \/ \E k \in DOMAIN requests, e \in Errors : TransportReject(k, e)

Spec == Init /\ [][Next]_vars

InitTypes ==
    /\ invocations = <<>>
    /\ requests = <<>>
    /\ promises = <<>>
    /\ candidate \in Candidates
    /\ verdict = [i \in InterfaceNames |-> "unchecked"]

NextTypes == TypeCheck

SpecTypes == InitTypes /\ [][NextTypes]_vars

TypeOK ==
    /\ Len(invocations) <= MaxCalls
    /\ Len(requests) <= MaxCalls
    /\ \A i \in DOMAIN promises : promises[i].state \in {"pending", "fulfilled", "rejected"}

(***************************************************************************)
(* Properties                                                              *)
(***************************************************************************)
RequestsOf(i) == {k \in DOMAIN requests : requests[k].by = i}

OpOf(k) == invocations[requests[k].by].op

ArgOf(k) == invocations[requests[k].by].arg

\* what the caller of invocation i observes
Outcome(i) == promises[invocations[i].returned]

\* what the transport answered request k with
Response(k) == promises[requests[k].promise]

\* the endpoint table of the specification (section 6)
Documented ==
    [ login         |-> <<"POST", "/auth/login">>,
      register      |-> <<"POST", "/auth/register">>,
      resetPassword |-> <<"GET", "/auth/email/reset-password">>,
      sentEmailAuth |-> <<"GET", "/auth/email/verify">>,
      logout        |-> <<"POST", "/auth/logout">>,
      loginWithGG   |-> <<"GET", "/auth/google/callback">> ]

\* C1: every invocation hands the transport exactly one request, with the
\* method and path documented for its operation; the number of requests
\* equals the number of invocations.
C1_OneDocumentedRequest ==
    /\ Len(requests) = Len(invocations)
    /\ \A i \in DOMAIN invocations :
        /\ Cardinality(RequestsOf(i)) = 1
        /\ \A k \in RequestsOf(i) :
            <<requests[k].method, requests[k].url>> = Documented[invocations[i].op]

C1_Witness ==
    /\ Len(invocations) = 2
    /\ invocations[1].op = "resetPassword"
    /\ invocations[2].op = "loginWithGG"
    /\ requests[1].url = "/auth/email/reset-password"
    /\ requests[2].url = "/auth/google/callback"

\* C2: when the transport rejects a request, the promise returned to the
\* caller of the operation that issued it is rejected with the same value.
C2_RejectionPropagates ==
    \A k \in DOMAIN requests :
        Response(k).state = "rejected" =>
            /\ Outcome(requests[k].by).state = "rejected"
            /\ Outcome(requests[k].by).value = Response(k).value

C2_Witness ==
    \E k \in DOMAIN requests :
        /\ OpOf(k) = "register"
        /\ Response(k).state = "rejected"
        /\ Outcome(requests[k].by) = Rejected(Obj({<<"message", "Network Error">>}))

\* C3: the promise returned by login resolves to exactly the value the
\* transport resolved the login request with.
C3_LoginResponseUnchanged ==
    \A k \in DOMAIN requests :
        (OpOf(k) = "login" /\ Response(k).state = "fulfilled") =>
            /\ Outcome(requests[k].by).state = "fulfilled"
            /\ Outcome(requests[k].by).value = Response(k).value

C3_Witness ==
    \E i \in DOMAIN invocations :
        /\ invocations[i].op = "login"
        /\ Outcome(i) = Fulfilled(Obj({<<"data",
               Obj({<<"access_token", "t1">>, <<"refresh_token", "t2">>})>>}))

\* C4: resetPassword({email: e}) and sentEmailAuth({email: e}) each issue a
\* GET whose query parameters are exactly email=e, to two distinct paths,
\* and neither targets the other's path.
C4_EmailOperations ==
    /\ "/auth/email/reset-password" # "/auth/email/verify"
    /\ \A k \in DOMAIN requests :
        /\ OpOf(k) = "resetPassword" =>
            /\ requests[k].url = "/auth/email/reset-password"
            /\ \A e \in Emails : ArgOf(k) = Obj({<<"email", e>>}) =>
                /\ requests[k].method = "GET"
                /\ requests[k].params = Obj({<<"email", e>>})
        /\ OpOf(k) = "sentEmailAuth" =>
            /\ requests[k].url = "/auth/email/verify"
            /\ \A e \in Emails : ArgOf(k) = Obj({<<"email", e>>}) =>
                /\ requests[k].method = "GET"
                /\ requests[k].params = Obj({<<"email", e>>})

C4_Witness ==
    /\ Len(requests) = 2
    /\ OpOf(1) = "resetPassword"
    /\ OpOf(2) = "sentEmailAuth"
    /\ requests[1].params = Obj({<<"email", "a@b.com">>})
    /\ requests[2].params = Obj({<<"email", "a@b.com">>})
    /\ requests[1].url # requests[2].url

\* C5: every logout request is a POST to the logout path with no body and
\* no query parameters, whatever was invoked before it.
C5_LogoutBare ==
    \A k \in DOMAIN requests :
        OpOf(k) = "logout" =>
            /\ requests[k].method = "POST"
            /\ requests[k].url = "/auth/logout"
            /\ requests[k].data = Undefined
            /\ requests[k].params = Undefined

C5_Witness ==
    /\ Len(requests) = 2
    /\ OpOf(1) = "login"
    /\ OpOf(2) = "logout"
    /\ requests[2].method = "POST"
    /\ requests[2].data = Undefined

\* C6: login and register pass their argument as the body and send no query
\* parameters; resetPassword, sentEmailAuth and loginWithGG pass their
\* argument as the query parameters and send no body.
C6_ArgumentPosition ==
    \A k \in DOMAIN requests :
        /\ OpOf(k) \in {"login", "register"} =>
            /\ requests[k].data = ArgOf(k)
            /\ requests[k].params = Undefined
        /\ OpOf(k) \in {"resetPassword", "sentEmailAuth", "loginWithGG"} =>
            /\ requests[k].params = ArgOf(k)
            /\ requests[k].data = Undefined

C6_Witness ==
    /\ Len(requests) = 2
    /\ OpOf(1) = "login"
    /\ OpOf(2) = "loginWithGG"
    /\ requests[1].data = Obj({<<"email", "c@d.com">>, <<"password", "pw">>})
    /\ requests[2].params = Obj({<<"code", "g2">>})

\* C7: no local recovery: the number of requests always equals the number
\* of invocations, a step in which a request fails issues no request, and
\* a rejected promise is never given another state or value afterwards.
C7_NoLocalRecovery ==
    /\ [](Len(requests) = Len(invocations))
    /\ [][(\E p \in DOMAIN promises :
              promises[p].state = "pending" /\ promises'[p].state = "rejected")
            => (requests' = requests /\ invocations' = invocations)]_vars
    /\ [][\A i \in DOMAIN invocations :
              Outcome(i).state = "rejected" =>
                  (invocations'[i] = invocations[i]
                   /\ promises'[invocations[i].returned] = Outcome(i))]_vars

C7_Witness ==
    /\ Len(invocations) = 2
    /\ Len(requests) = 2
    /\ \A k \in DOMAIN requests : Response(k).state = "rejected"
    /\ \A i \in DOMAIN invocations : Outcome(i).state = "rejected"

\* C8: calls are independent: every call has a request and a promise of its
\* own, equal arguments to the same operation give equal requests, and a
\* step never changes an earlier call's request, nor the outcome of any call
\* other than the one whose request the transport completes in that step.
C8_CallsIndependent ==
    /\ [](\A i, j \in DOMAIN invocations :
            /\ i # j => invocations[i].returned # invocations[j].returned
            /\ i # j => RequestsOf(i) \cap RequestsOf(j) = {}
            /\ RequestsOf(i) # {}
            /\ (invocations[i].op = invocations[j].op /\ invocations[i].arg = invocations[j].arg)
                => \A k \in RequestsOf(i), l \in RequestsOf(j) :
                       /\ requests[k].method = requests[l].method
                       /\ requests[k].url = requests[l].url
                       /\ requests[k].data = requests[l].data
                       /\ requests[k].params = requests[l].params)
    /\ [][/\ \A i \in DOMAIN invocations : invocations'[i] = invocations[i]
          /\ \A k \in DOMAIN requests : requests'[k] = requests[k]
          /\ \A i \in DOMAIN invocations :
                Outcome(i).state # "pending" => promises'[invocations[i].returned] = Outcome(i)
          /\ \A i, j \in DOMAIN invocations :
                (i # j /\ promises'[invocations[i].returned] # Outcome(i))
                    => promises'[invocations[j].returned] = Outcome(j)]_vars

C8_Witness ==
    /\ Len(invocations) = 2
    /\ invocations[1].op = "login"
    /\ invocations[2].op = "login"
    /\ invocations[1].arg # invocations[2].arg
    /\ Outcome(1).state = "pending"
    /\ Outcome(2).state = "fulfilled"

\* C9: {} is accepted as a PaginationResponse and as a FailResponse, which
\* are never rejected for a missing member; it is rejected as an
\* ErrorResponse and as a SuccessResponse, which are rejected whenever
\* error, message or status, respectively data, is missing.
C9_OptionalMembers ==
    (\A n \in InterfaceNames : verdict[n] # "unchecked") =>
        /\ candidate = EmptyObject =>
            /\ verdict["PaginationResponse"] = "accepted"
            /\ verdict["FailResponse"] = "accepted"
            /\ verdict["ErrorResponse"] = "rejected"
            /\ verdict["SuccessResponse"] = "rejected"
        /\ \A n \in {"PaginationResponse", "FailResponse"} :
            verdict[n] = "rejected" =>
                \E m \in Interface(n) :
                    candidate[m.name] \notin {"undefined", m.type}
        /\ (\E k \in {"error", "message", "status"} : candidate[k] = "undefined")
               => verdict["ErrorResponse"] = "rejected"
        /\ candidate["data"] = "undefined" => verdict["SuccessResponse"] = "rejected"

C9_Witness ==
    /\ candidate = EmptyObject
    /\ verdict["PaginationResponse"] = "accepted"
    /\ verdict["FailResponse"] = "accepted"
    /\ verdict["ErrorResponse"] = "rejected"
    /\ verdict["SuccessResponse"] = "rejected"

\* C10: sentEmailAuth always sends the email query parameter; resetPassword
\* called without an email still issues its one GET to the reset-password
\* path, with no email query parameter, and its promise is the transport's
\* (nothing is rejected locally before the transport answers).
C10_EmailOptionalForReset ==
    /\ \A k \in DOMAIN requests :
        OpOf(k) = "sentEmailAuth" => "email" \in Keys(requests[k].params)
    /\ \A i \in DOMAIN invocations :
        (invocations[i].op = "resetPassword" /\ "email" \notin Keys(invocations[i].arg)) =>
            /\ Cardinality(RequestsOf(i)) = 1
            /\ \A k \in RequestsOf(i) :
                /\ requests[k].method = "GET"
                /\ requests[k].url = "/auth/email/reset-password"
                /\ "email" \notin Keys(requests[k].params)
                /\ invocations[i].returned = requests[k].promise
                /\ Outcome(i) = Response(k)

C10_Witness ==
    /\ Len(invocations) = 2
    /\ invocations[1].op = "resetPassword"
    /\ invocations[1].arg = Obj({})
    /\ requests[1].params = Obj({})
    /\ Outcome(1).state = "pending"
    /\ invocations[2].op = "sentEmailAuth"
    /\ "email" \in Keys(requests[2].params)

====
